---- MODULE Spec2Model ----
(***************************************************************************)
(* Model of the call-bridging core of FirstLine-AI: the outbound service   *)
(* (outbound/outbound.js) and the analysis storage endpoint                *)
(* (frontend/src/app/api/analysis/route.ts).                               *)
(*                                                                         *)
(* One start-call request is followed through the telephony call, the      *)
(* media-stream websocket (one closure of per-connection variables), the   *)
(* ElevenLabs websockets that closure creates, and the analyzeConversation *)
(* invocations it triggers.                                                *)
(***************************************************************************)
EXTENDS Integers, Sequences, FiniteSets, TLC

\* ---------------------------------------------------------------- bounds
MaxStarts == 2      \* 'start' events delivered on the media stream
MaxStops  == 2      \* 'stop' events delivered on the media stream
MaxMedia  == 1      \* 'media' frames delivered on the media stream
MaxTurns  == 1      \* transcript-bearing ElevenLabs events
MaxPings  == 1      \* ping events received from ElevenLabs
MaxEvents == 1      \* ElevenLabs and Twilio events of the other cases
MaxFrames == 3      \* media frames where their order is observed
MaxSessions == 2    \* concurrent media-stream connections
MaxSessionEvents == 4  \* events delivered over all concurrent sessions
MaxPosts == 2       \* POSTs in flight at the storage endpoint

\* ------------------------------------------------------ JavaScript values
\* A string-valued field that is undefined in JavaScript.
Absent == "<undefined>"
\* A number-valued field that is undefined (or NaN: Number.isFinite is false).
Undefined == 0 - 1
\* A closure variable that still holds null.
Null == "<null>"

\* The scenarioId of a request body: undefined, a number or a string.
SidUndefined == [kind |-> "undefined", num |-> 0, str |-> ""]
SidNumber(n) == [kind |-> "number", num |-> n, str |-> ""]
SidString(s) == [kind |-> "string", num |-> 0, str |-> s]

\* String(n) for the numbers of the model.
NumToStr(n) ==
  CASE n = 0 -> "0"
    [] n = 1 -> "1"
    [] n = 2 -> "2"
    [] n = 3 -> "3"
    [] OTHER -> "undefined"

\* String(v) of a request scenarioId.
JSString(sid) ==
  CASE sid.kind = "number" -> NumToStr(sid.num)
    [] sid.kind = "string" -> sid.str
    [] OTHER -> "undefined"

\* Number(raw) followed by Number.isFinite: the number, or Undefined for NaN.
JSNumber(raw) ==
  CASE raw = ""  -> 0
    [] raw = "0" -> 0
    [] raw = "1" -> 1
    [] raw = "2" -> 2
    [] raw = "3" -> 3
    [] OTHER -> Undefined

\* Truthiness of a number-valued field: undefined, NaN and 0 are falsy.
Truthy(n) == n # Undefined /\ n # 0

\* v || dflt for a string-valued field: undefined and '' are falsy.
OrElse(v, dflt) == IF v = Absent \/ v = "" THEN dflt ELSE v

\* encodeURIComponent(v) as the query parameter reads it back: undefined is
\* written as the text "undefined".
EncodeURIComponent(v) == IF v = Absent THEN "undefined" ELSE v

\* ------------------------------------------------------------ input sets
PromptJohn == "You are John Smith. Your wife has chest pain."
PromptOther == "You are a worried caller. Stay in character."
FirstJohn == "He can't breathe!"
NumberOk == "+447700900123"

Call(number, prompt, first_message, scenarioId) ==
  [number |-> number, prompt |-> prompt, first_message |-> first_message,
   scenarioId |-> scenarioId]

\* The request bodies tried: the spec's scenario 1, a scenarioId of 0, a
\* non-numeric scenarioId, a body with only a number, and two without one.
Requests ==
  { Call(NumberOk, PromptJohn, FirstJohn, SidNumber(1)),
    Call(NumberOk, PromptJohn, "", SidNumber(0)),
    Call(NumberOk, PromptOther, FirstJohn, SidString("abc")),
    Call(NumberOk, "", Absent, SidUndefined),
    Call(Absent, PromptJohn, FirstJohn, SidNumber(1)),
    Call("", PromptOther, FirstJohn, SidNumber(1)) }

NoRequest ==
  [number |-> Null, prompt |-> Null, first_message |-> Null,
   scenarioId |-> SidUndefined]

NullParameters == [prompt |-> Null, first_message |-> Null, scenarioId |-> Null]

\* customParameters?.field : undefined when customParameters is null.
Param(parameters, field) ==
  IF parameters = NullParameters THEN Absent ELSE parameters[field]

VARIABLES
  request,             \* the start-call request body received
  httpReply,           \* status code of the reply to it (0: none yet)
  twilioCalls,         \* number of twilioClient.calls.create requests made
  twimlUrl,            \* query parameters of the TwiML url given to Twilio
  streamParameters,    \* <Parameter> values of the TwiML response
  ws,                  \* the media-stream websocket: none, open, closed
  streamSid,
  callSid,
  customParameters,
  conversationHistory,
  elevenLabsWs,        \* index into sockets, 0 for null
  sockets,             \* readyState of every ElevenLabs WebSocket created
  setupPending,        \* setupElevenLabs calls awaiting getSignedUrl
  elSent,              \* messages sent on ElevenLabs websockets
  starts,              \* 'start' events received
  stops,               \* 'stop' events received
  mediaIn,             \* 'media' frames received
  analyses,            \* analyzeConversation invocations
  gradingRequests,     \* requests made to openai.chat.completions.create
  posts,               \* POSTs of a result to the storage endpoint
  store,               \* analysis_data.json of the storage endpoint
  crashed,             \* the process died of an uncaught exception
  httpBody,            \* body of the reply to the start-call request
  stopEffects,         \* what the latest stop handler did, in order
  gradingInputs,       \* per invocation: the rendered transcript, the saved file
  agentCall,           \* a call of getAgentIdForScenario and its result
  lastPoll,            \* the latest GET /api/analysis?id= and its reply
  files,               \* analysis files in the outbound service's directory
  getReply,            \* the latest GET /analysis/:callSid and its reply
  pingsIn,             \* ping events received from ElevenLabs
  lastPing,            \* the latest of them
  twSent,              \* frames sent on the media-stream websocket
  eventsIn,            \* ElevenLabs and Twilio events of the other cases
  lastEvent,           \* the latest of them
  sessions             \* closures of concurrent media-stream connections

vars ==
  <<request, httpReply, twilioCalls, twimlUrl, streamParameters, ws, streamSid,
    callSid, customParameters, conversationHistory, elevenLabsWs, sockets,
    setupPending, elSent, starts, stops, mediaIn, analyses, gradingRequests,
    posts, store, crashed, httpBody, stopEffects, gradingInputs, agentCall,
    lastPoll, files,
    getReply, pingsIn, lastPing, twSent, eventsIn, lastEvent, sessions>>

httpVars == <<request, httpReply, twilioCalls, twimlUrl, httpBody>>
sessionVars ==
  <<streamSid, callSid, customParameters, conversationHistory, elevenLabsWs>>
bridgeVars == <<sockets, setupPending, elSent>>
gradingVars == <<analyses, gradingRequests, posts, store>>
eventCounters == <<starts, stops, mediaIn>>
eventVars == <<twSent, eventsIn, lastEvent, sessions>>
otherVars ==
  <<agentCall, lastPoll, files, getReply, pingsIn, lastPing, eventVars>>
stopLog == <<stopEffects, gradingInputs>>
callVars ==
  <<httpVars, streamParameters, ws, sessionVars, bridgeVars, gradingVars,
    eventCounters, crashed, stopLog>>

\* A reply body of POST /outbound-call; the fields a reply leaves out are
\* undefined.
NoBody ==
  [success |-> Absent, message |-> Absent, callSid |-> Absent, error |-> Absent,
   detail |-> Absent]

\* analysisData before it is assigned; also "no record" in a reply.
NoData ==
  [scenario |-> "", scenarioId |-> Undefined, score |-> 0,
   final_recommendation |-> "", pass_fail |-> ""]

\* The keys ELEVENLABS_AGENT_ID_<id> the model looks at; Absent is unset.
AgentKeys == {"0", "1", "2"}
NoAgentCall ==
  [scenarioId |-> Absent, env |-> [k \in AgentKeys |-> Absent],
   result |-> Absent, done |-> FALSE]

NoPoll ==
  [id |-> Absent, status |-> 0, data |-> NoData, forCall |-> FALSE,
   published |-> FALSE]
\* A saved analysis file, by the callSid and timestamp fields of its content
\* (its name is built from the same two values).
NoFile == [callSid |-> <<>>, timestamp |-> <<>>]
NoGet == [callSid |-> <<>>, status |-> 0, file |-> NoFile]
NoPing == [sock |-> 0, event_id |-> 0]
NoEvent == [leg |-> "", sock |-> 0, type |-> "", text |-> ""]

\* The outbound service after start-up, before any request.
InitSession ==
  /\ request = NoRequest
  /\ httpReply = 0
  /\ httpBody = NoBody
  /\ twilioCalls = 0
  /\ twimlUrl = NullParameters
  /\ streamParameters = NullParameters
  /\ ws = "none"
  /\ streamSid = Null
  /\ callSid = Null
  /\ customParameters = NullParameters
  /\ conversationHistory = <<>>
  /\ elevenLabsWs = 0
  /\ sockets = <<>>
  /\ setupPending = 0
  /\ elSent = <<>>
  /\ starts = 0
  /\ stops = 0
  /\ mediaIn = 0
  /\ analyses = <<>>
  /\ gradingRequests = 0
  /\ crashed = FALSE
  /\ stopEffects = <<>>
  /\ gradingInputs = <<>>
  /\ lastPoll = NoPoll
  /\ getReply = NoGet
  /\ pingsIn = 0
  /\ lastPing = NoPing
  /\ twSent = <<>>
  /\ eventsIn = 0
  /\ lastEvent = NoEvent
  /\ sessions = <<>>

\* A first run: nothing stored yet, no analysis file saved.
Init ==
  /\ InitSession
  /\ posts = <<>>
  /\ store = <<>>
  /\ files = {}
  /\ agentCall = NoAgentCall

\* ------------------------------------------------- POST /outbound-call
\* Mutant of NumberMissing: only an undefined number is refused.
NumberMissingOnlyUndefined(number) == number = Absent

\* !number
NumberMissing(number) == number = Absent \/ number = ""

\* scenarioId !== undefined && scenarioId !== null ? String(scenarioId) : ''
ScenarioIdParam(sid) == IF sid.kind = "undefined" THEN "" ELSE JSString(sid)

\* The query string of twimlUrl, as the TwiML route reads it back.
TwimlUrl(req) ==
  [prompt |-> EncodeURIComponent(req.prompt),
   first_message |-> EncodeURIComponent(req.first_message),
   scenarioId |-> ScenarioIdParam(req.scenarioId)]

\* What twilioClient.calls.create may do: create the call, or throw an error
\* with one of these messages.
TwilioErrors == {"Authenticate", ""}
TwilioOutcomes == {"created"} \cup TwilioErrors

\* error?.message || error?.toString?.() || 'Unknown error', for an Error:
\* with an empty message its toString() is "Error".
ErrorDetail(message) == OrElse(OrElse(message, "Error"), "Unknown error")

\* reply.code(400).send({ error: 'Phone number is required' })
BadRequestBody == [NoBody EXCEPT !.error = "Phone number is required"]

\* reply.send({ success: true, message: 'Call initiated', callSid: call.sid })
CreatedBody ==
  [NoBody EXCEPT !.success = "true", !.message = "Call initiated",
                 !.callSid = "CA1"]

\* Mutant of FailureBody: the failure is reported without its fields.
FailureBodyBare(message) == [NoBody EXCEPT !.error = ErrorDetail(message)]

\* reply.code(500).send({ success: false, error: ..., detail: message })
FailureBody(message) ==
  [NoBody EXCEPT !.success = "false", !.error = "Failed to initiate call",
                 !.detail = ErrorDetail(message)]

\* The start-call handler: 400 without a number, else one call-creation
\* request to Twilio, answered 200 when it succeeds and 500 when it throws.
OutboundCall ==
  /\ ~crashed
  /\ httpReply = 0
  /\ \E req \in Requests, outcome \in TwilioOutcomes :
       /\ request' = req
       /\ IF NumberMissing(req.number)
            THEN /\ httpReply' = 400
                 /\ httpBody' = BadRequestBody
                 /\ UNCHANGED <<twilioCalls, twimlUrl>>
            ELSE /\ twilioCalls' = twilioCalls + 1
                 /\ IF outcome = "created"
                      THEN /\ httpReply' = 200
                           /\ httpBody' = CreatedBody
                           /\ twimlUrl' = TwimlUrl(req)
                      ELSE /\ httpReply' = 500
                           /\ httpBody' = FailureBody(outcome)
                           /\ UNCHANGED twimlUrl
  /\ UNCHANGED <<streamParameters, ws, sessionVars, bridgeVars, gradingVars,
                 eventCounters, crashed>>
  /\ UNCHANGED <<otherVars, stopLog>>

\* ------------------------------------------------ /outbound-call-twiml
\* Twilio fetches the TwiML once the call is answered; the <Parameter>
\* values are echoed as customParameters of the stream's start event.
OutboundCallTwiml ==
  /\ ~crashed
  /\ twimlUrl # NullParameters
  /\ streamParameters = NullParameters
  /\ streamParameters' =
       [prompt |-> OrElse(twimlUrl.prompt, ""),
        first_message |-> OrElse(twimlUrl.first_message, ""),
        scenarioId |-> OrElse(twimlUrl.scenarioId, "")]
  /\ UNCHANGED <<httpVars, ws, sessionVars, bridgeVars, gradingVars,
                 eventCounters, crashed>>
  /\ UNCHANGED <<otherVars, stopLog>>

\* --------------------------------------------- /outbound-media-stream
\* Twilio opens the media stream: a new closure with streamSid, callSid,
\* elevenLabsWs and customParameters null and an empty conversationHistory.
MediaStreamConnect ==
  /\ ~crashed
  /\ streamParameters # NullParameters
  /\ ws = "none"
  /\ ws' = "open"
  /\ streamSid' = Null
  /\ callSid' = Null
  /\ elevenLabsWs' = 0
  /\ customParameters' = NullParameters
  /\ conversationHistory' = <<>>
  /\ UNCHANGED <<httpVars, streamParameters, bridgeVars, gradingVars,
                 eventCounters, crashed>>
  /\ UNCHANGED <<otherVars, stopLog>>

\* The two turns the start handler pushes.
SeedTurns(parameters) ==
  << [role |-> "system",
      content |-> OrElse(Param(parameters, "prompt"), "Default prompt")],
     [role |-> "assistant",
      content |-> OrElse(Param(parameters, "first_message"), "Default message")] >>

\* case 'start': capture the identifiers and parameters, seed the transcript
\* and call setupElevenLabs, which runs up to its await of getSignedUrl.
TwilioStartWith(sid) ==
  /\ ~crashed
  /\ ws = "open"
  /\ starts < MaxStarts
  /\ starts' = starts + 1
  /\ streamSid' = sid
  /\ callSid' = "CA1"
  /\ customParameters' = streamParameters
  /\ conversationHistory' = conversationHistory \o SeedTurns(streamParameters)
  /\ setupPending' = setupPending + 1
  /\ UNCHANGED <<httpVars, streamParameters, ws, elevenLabsWs, sockets, elSent,
                 stops, mediaIn, gradingVars, crashed>>
  /\ UNCHANGED <<otherVars, stopLog>>

\* The start event as Twilio sends it, with the stream's identifier.
TwilioStart == TwilioStartWith("MZ1")

\* ------------------------------------------------------ setupElevenLabs
\* elevenLabsWs?.readyState === WebSocket.OPEN
ElevenLabsOpenNow == elevenLabsWs # 0 /\ sockets[elevenLabsWs] = "OPEN"

\* elevenLabsWs.close() where the handlers guard it; nothing otherwise.
CloseIfOpen ==
  IF ElevenLabsOpenNow
    THEN [sockets EXCEPT ![elevenLabsWs] = "CLOSING"]
    ELSE sockets

\* getSignedUrl resolved: setupElevenLabs resumes, creates a WebSocket and
\* assigns it to elevenLabsWs.
SignedUrlResolvedReused ==
  /\ ~crashed
  /\ setupPending > 0
  /\ setupPending' = setupPending
  /\ sockets' = Append(sockets, "CONNECTING")
  /\ elevenLabsWs' = Len(sockets) + 1
  /\ UNCHANGED <<httpVars, streamParameters, ws, streamSid, callSid,
                 customParameters, conversationHistory, elSent, gradingVars,
                 eventCounters, crashed>>
  /\ UNCHANGED <<otherVars, stopLog>>

SignedUrlResolved ==
  /\ ~crashed
  /\ setupPending > 0
  /\ setupPending' = setupPending - 1
  /\ sockets' = Append(sockets, "CONNECTING")
  /\ elevenLabsWs' = Len(sockets) + 1
  /\ UNCHANGED <<httpVars, streamParameters, ws, streamSid, callSid,
                 customParameters, conversationHistory, elSent, gradingVars,
                 eventCounters, crashed>>
  /\ UNCHANGED <<otherVars, stopLog>>

\* getSignedUrl threw (request failed or non-ok status): the catch of
\* setupElevenLabs logs and the setup ends without a connection.
SignedUrlFailed ==
  /\ ~crashed
  /\ setupPending > 0
  /\ setupPending' = setupPending - 1
  /\ UNCHANGED <<httpVars, streamParameters, ws, sessionVars, sockets, elSent,
                 gradingVars, eventCounters, crashed>>
  /\ UNCHANGED <<otherVars, stopLog>>

\* The conversation_initiation_client_data event of the open handler.
InitialConfig(target) ==
  [sock |-> target,
   type |-> "conversation_initiation_client_data",
   prompt |-> OrElse(Param(customParameters, "prompt"), ""),
   first_message |-> OrElse(Param(customParameters, "first_message"),
                            "Hello, I need help."),
   frame |-> 0]

\* 'open' of socket s. The handler sends on the closure variable
\* elevenLabsWs, which a later setup may have reassigned: send() on a socket
\* that is still CONNECTING throws inside the listener (uncaught), and on a
\* closing or closed one the data is discarded.
ElevenLabsOpen(s) ==
  /\ ~crashed
  /\ sockets[s] = "CONNECTING"
  /\ sockets' = [sockets EXCEPT ![s] = "OPEN"]
  /\ IF sockets'[elevenLabsWs] = "OPEN"
       THEN elSent' = Append(elSent, InitialConfig(elevenLabsWs))
                /\ UNCHANGED crashed
       ELSE IF sockets'[elevenLabsWs] = "CONNECTING"
         THEN crashed' = TRUE /\ UNCHANGED elSent
         ELSE UNCHANGED <<elSent, crashed>>
  /\ UNCHANGED <<httpVars, streamParameters, ws, sessionVars, setupPending,
                 gradingVars, eventCounters>>
  /\ UNCHANGED <<otherVars, stopLog>>

\* Mutant of ElevenLabsClosed: the close handler sets the connection up
\* again.
ElevenLabsClosedReconnect(s) ==
  /\ ~crashed
  /\ sockets[s] # "CLOSED"
  /\ sockets' = [sockets EXCEPT ![s] = "CLOSED"]
  /\ setupPending' = setupPending + 1
  /\ UNCHANGED <<httpVars, streamParameters, ws, sessionVars, elSent,
                 gradingVars, eventCounters, crashed>>
  /\ UNCHANGED <<otherVars, stopLog>>

\* 'error' / 'close' of socket s: both handlers only log.
ElevenLabsClosed(s) ==
  /\ ~crashed
  /\ sockets[s] # "CLOSED"
  /\ sockets' = [sockets EXCEPT ![s] = "CLOSED"]
  /\ UNCHANGED <<httpVars, streamParameters, ws, sessionVars, setupPending,
                 elSent, gradingVars, eventCounters, crashed>>
  /\ UNCHANGED <<otherVars, stopLog>>

\* Transcript turns pushed since the seeds.
TurnsAppended == Len(conversationHistory) - 2 * starts

\* Mutant of ElevenLabsTranscript: the turn is put in front of the transcript.
ElevenLabsTranscriptUnshift(s) ==
  /\ ~crashed
  /\ sockets[s] \in {"OPEN", "CLOSING"}
  /\ TurnsAppended < MaxTurns
  /\ \E type \in {"agent_response", "user_transcript"},
        text \in {"", "Please hurry."} :
       conversationHistory' =
         IF text = ""
           THEN conversationHistory
           ELSE <<[role |-> IF type = "agent_response"
                             THEN "assistant" ELSE "user",
                   content |-> text]>> \o conversationHistory
  /\ UNCHANGED <<httpVars, streamParameters, ws, streamSid, callSid,
                 customParameters, elevenLabsWs, bridgeVars, gradingVars,
                 eventCounters, crashed>>
  /\ UNCHANGED <<otherVars, stopLog>>

\* 'message' of socket s, case 'agent_response' / 'user_transcript': push one
\* turn when the text is non-empty. Messages are still delivered while the
\* socket is closing.
ElevenLabsTranscript(s) ==
  /\ ~crashed
  /\ sockets[s] \in {"OPEN", "CLOSING"}
  /\ TurnsAppended < MaxTurns
  /\ \E type \in {"agent_response", "user_transcript"},
        text \in {"", "Please hurry."} :
       conversationHistory' =
         IF text = ""
           THEN conversationHistory
           ELSE Append(conversationHistory,
                       [role |-> IF type = "agent_response"
                                   THEN "assistant" ELSE "user",
                        content |-> text])
  /\ UNCHANGED <<httpVars, streamParameters, ws, streamSid, callSid,
                 customParameters, elevenLabsWs, bridgeVars, gradingVars,
                 eventCounters, crashed>>
  /\ UNCHANGED <<otherVars, stopLog>>

\* ------------------------------------------------- ws.on('message') cases
\* The user_audio_chunk event of frame n.
AudioMessage(n) ==
  [sock |-> elevenLabsWs, type |-> "user_audio_chunk", prompt |-> "",
   first_message |-> "", frame |-> n]

\* Mutant of TwilioMedia: the frame is sent whenever a socket exists,
\* whatever its readyState.
TwilioMediaAnyState ==
  /\ ~crashed
  /\ ws = "open"
  /\ mediaIn < MaxMedia
  /\ mediaIn' = mediaIn + 1
  /\ elSent' = IF elevenLabsWs # 0
                 THEN Append(elSent, AudioMessage(mediaIn + 1))
                 ELSE elSent
  /\ UNCHANGED <<httpVars, streamParameters, ws, sessionVars, sockets,
                 setupPending, starts, stops, gradingVars, crashed>>
  /\ UNCHANGED <<otherVars, stopLog>>

\* case 'media': forward the frame when the connection is open, else nothing.
\* Mutant of TwilioMediaUpTo: an open socket is sent the frame twice.
TwilioMediaTwice(max) ==
  /\ ~crashed
  /\ ws = "open"
  /\ mediaIn < max
  /\ mediaIn' = mediaIn + 1
  /\ elSent' = IF ElevenLabsOpenNow
                 THEN elSent \o <<AudioMessage(mediaIn + 1),
                                  AudioMessage(mediaIn + 1)>>
                 ELSE elSent
  /\ UNCHANGED <<httpVars, streamParameters, ws, sessionVars, sockets,
                 setupPending, starts, stops, gradingVars, crashed>>
  /\ UNCHANGED <<otherVars, stopLog>>

\* case 'media' for the frames of a stream, numbered in arrival order up to
\* max: one user_audio_chunk per frame while the socket is OPEN, nothing
\* otherwise.
TwilioMediaUpTo(max) ==
  /\ ~crashed
  /\ ws = "open"
  /\ mediaIn < max
  /\ mediaIn' = mediaIn + 1
  /\ elSent' = IF ElevenLabsOpenNow
                 THEN Append(elSent, AudioMessage(mediaIn + 1))
                 ELSE elSent
  /\ UNCHANGED <<httpVars, streamParameters, ws, sessionVars, sockets,
                 setupPending, starts, stops, gradingVars, crashed>>
  /\ UNCHANGED <<otherVars, stopLog>>

TwilioMedia == TwilioMediaUpTo(MaxMedia)

\* ---------------------------------------------------- analyzeConversation
NameJohn == "John Smith - Elderly patient with chest pain"
NameSarah == "Sarah Johnson - Unconscious teenager"
NameMichael == "Michael Chen - Multi-vehicle collision"

\* text.includes(needle), for the texts of the model.
Includes(text, needle) ==
  \/ needle = "John Smith" /\ text \in {PromptJohn, NameJohn}
  \/ needle = "Sarah Johnson" /\ text = NameSarah
  \/ needle = "Michael Chen" /\ text = NameMichael

\* text.split('.')[0]?.substring(0, 50), for the texts of the model.
FirstSentence(text) ==
  CASE text = PromptJohn -> "You are John Smith"
    [] text = PromptOther -> "You are a worried caller"
    [] OTHER -> text

\* Mutant of ParsedScenarioId: the identifier is never recovered.
ParsedScenarioIdLost(parameters) == Undefined

\* const parsedScenarioId = (() => { ... })()
ParsedScenarioId(parameters) ==
  LET raw == Param(parameters, "scenarioId")
  IN IF raw = Absent THEN Undefined ELSE JSNumber(raw)

\* let scenarioName = ...
ScenarioName(parameters) ==
  LET promptText == OrElse(Param(parameters, "prompt"), "")
  IN CASE Includes(promptText, "John Smith") -> NameJohn
       [] Includes(promptText, "Sarah Johnson") -> NameSarah
       [] Includes(promptText, "Michael Chen") -> NameMichael
       [] OTHER -> OrElse(FirstSentence(promptText), "Unknown scenario")

\* scenarioId values the grading model may put in its JSON (none, or one).
ModelScenarioIds == {Undefined, 2}

\* The JSON objects the grading model may return for a scenario name.
ModelJson(name) ==
  { [scenario |-> name, scenarioId |-> sid, score |-> 7,
     final_recommendation |-> "Practise confirming the address earlier.",
     pass_fail |-> "PASS"] : sid \in ModelScenarioIds }

\* Mutant of ParseFallback: the fallback is marked as a pass.
ParseFallbackPass(name, parsed) ==
  [scenario |-> name,
   scenarioId |-> IF Truthy(parsed) THEN parsed ELSE Undefined,
   score |-> 5,
   final_recommendation |->
     "Please review the raw conversation transcript as automated analysis failed.",
   pass_fail |-> "PASS"]

\* The object built in the catch of JSON.parse.
ParseFallback(name, parsed) ==
  [scenario |-> name,
   scenarioId |-> IF Truthy(parsed) THEN parsed ELSE Undefined,
   score |-> 5,
   final_recommendation |->
     "Please review the raw conversation transcript as automated analysis failed.",
   pass_fail |-> "FAIL"]

\* if (parsedScenarioId && typeof analysisData === 'object' && analysisData)
\*   analysisData.scenarioId = parsedScenarioId
ForceScenarioId(data, parsed) ==
  IF Truthy(parsed) THEN [data EXCEPT !.scenarioId = parsed] ELSE data

\* const role = msg.role === "assistant" ? "RESPONDER" : "CALLER"
LineLabel(role) == IF role = "assistant" THEN "RESPONDER" ELSE "CALLER"

\* formattedTranscript, by its parts: the SCENARIO DETAILS text (when the
\* first turn is the system turn) and one "[label]: content" line for each
\* turn after it, in order.
FormattedTranscript(history) ==
  LET system == Len(history) > 0 /\ history[1].role = "system"
      transcriptMessages ==
        IF system THEN SubSeq(history, 2, Len(history)) ELSE history
  IN [details |-> IF system THEN history[1].content ELSE Absent,
      lines |-> [k \in DOMAIN transcriptMessages |->
                   [label |-> LineLabel(transcriptMessages[k].role),
                    content |-> transcriptMessages[k].content]]]

\* The history variable gradingInputs after a stop event: an invocation of
\* analyzeConversation renders the transcript as it is at the call (rendered
\* keeps the turns it read).
GradingInputsAfterStop ==
  IF Len(conversationHistory) > 0
    THEN Append(gradingInputs,
                [formattedTranscript |-> FormattedTranscript(conversationHistory),
                 rendered |-> conversationHistory,
                 saved |-> FALSE,
                 conversation |-> <<>>])
    ELSE gradingInputs

\* gradingInputs after the grading request of invocation i settled: unless
\* it threw, fullAnalysisData is built and serialized for fs.writeFile, and
\* its conversation is the session's conversationHistory array itself, read
\* at that moment.
GradingInputsAfterReply(i) ==
  IF analyses'[i].pc = "write"
    THEN [gradingInputs EXCEPT ![i].saved = TRUE,
                               ![i].conversation = conversationHistory]
    ELSE gradingInputs

\* A new invocation, as it stands at its await of the grading request.
NewAnalysis(parameters) ==
  [pc |-> "openai",
   parsedScenarioId |-> ParsedScenarioId(parameters),
   scenarioName |-> ScenarioName(parameters),
   outcome |-> "pending",
   analysisData |-> NoData]

\* Mutant of StopEffects: the socket is closed before the grader is called.
StopEffectsCloseFirst ==
  (IF ElevenLabsOpenNow THEN <<"close">> ELSE <<>>)
    \o (IF Len(conversationHistory) > 0 THEN <<"analyzeConversation">> ELSE <<>>)

\* What the stop handler does, in the order of its statements: the call of
\* analyzeConversation (which takes the transcript) when there is a
\* transcript, then elevenLabsWs.close() when that socket is OPEN. The
\* history variable stopEffects records it in the specification that
\* observes the order; it is read by no action.
StopEffects ==
  (IF Len(conversationHistory) > 0 THEN <<"analyzeConversation">> ELSE <<>>)
    \o (IF ElevenLabsOpenNow THEN <<"close">> ELSE <<>>)

\* Mutant of TwilioStop: the grader is called whatever the transcript holds.
TwilioStopUnguarded ==
  /\ ~crashed
  /\ ws = "open"
  /\ stops < MaxStops
  /\ stops' = stops + 1
  /\ analyses' = Append(analyses, NewAnalysis(customParameters))
  /\ gradingRequests' = gradingRequests + 1
  /\ sockets' = CloseIfOpen
  /\ UNCHANGED <<httpVars, streamParameters, ws, sessionVars, setupPending,
                 elSent, starts, mediaIn, posts, store, crashed>>
  /\ UNCHANGED otherVars

\* case 'stop': call analyzeConversation when the transcript is non-empty (it
\* runs up to its await of openai.chat.completions.create), then close the
\* ElevenLabs connection when it is open.
TwilioStop ==
  /\ ~crashed
  /\ ws = "open"
  /\ stops < MaxStops
  /\ stops' = stops + 1
  /\ IF Len(conversationHistory) > 0
       THEN /\ analyses' = Append(analyses, NewAnalysis(customParameters))
            /\ gradingRequests' = gradingRequests + 1
       ELSE UNCHANGED <<analyses, gradingRequests>>
  /\ sockets' = CloseIfOpen
  /\ UNCHANGED <<httpVars, streamParameters, ws, sessionVars, setupPending,
                 elSent, starts, mediaIn, posts, store, crashed>>
  /\ UNCHANGED otherVars

\* ws.on('close'): close the ElevenLabs connection when it is open.
TwilioClose ==
  /\ ~crashed
  /\ ws = "open"
  /\ ws' = "closed"
  /\ sockets' = CloseIfOpen
  /\ UNCHANGED <<httpVars, streamParameters, sessionVars, setupPending, elSent,
                 gradingVars, eventCounters, crashed>>
  /\ UNCHANGED <<otherVars, stopLog>>

\* Mutant of CatchBlock: the failure is answered by grading again.
CatchBlockRetry(a) == [a EXCEPT !.pc = "openai"]

\* The catch block of analyzeConversation: building failedAnalysis reads
\* scenarioName and parsedScenarioId, which are declared inside the try block
\* and are not in scope, so the block throws a ReferenceError before its
\* fetch and the promise rejects.
CatchBlock(a) == [a EXCEPT !.pc = "rejected"]

\* The grading request settles: it throws, or returns text that is not JSON,
\* or returns a JSON object. After parsing, the scenarioId is set and the
\* local file write is started.
GradingReply(i) ==
  /\ ~crashed
  /\ analyses[i].pc = "openai"
  /\ LET a == analyses[i] IN
     \/ analyses' = [analyses EXCEPT ![i] = CatchBlock([a EXCEPT !.outcome = "threw"])]
     \/ analyses' =
          [analyses EXCEPT ![i] =
             [a EXCEPT !.outcome = "nonjson", !.pc = "write",
                       !.analysisData =
                          ForceScenarioId(
                            ParseFallback(a.scenarioName, a.parsedScenarioId),
                            a.parsedScenarioId)]]
     \/ \E reply \in ModelJson(a.scenarioName) :
          analyses' =
            [analyses EXCEPT ![i] =
               [a EXCEPT !.outcome = "json", !.pc = "write",
                         !.analysisData =
                            ForceScenarioId(reply, a.parsedScenarioId)]]
  /\ UNCHANGED <<httpVars, streamParameters, ws, sessionVars, bridgeVars,
                 eventCounters, gradingRequests, posts, store, crashed>>
  /\ UNCHANGED <<otherVars, stopEffects>>

\* ------------------------------------------------------- analysis files
\* Strings that are sorted and matched by prefix are sequences of character
\* codes: "analysis_" and ".json".
StrAnalysis == <<97, 110, 97, 108, 121, 115, 105, 115, 95>>
StrJson == <<46, 106, 115, 111, 110>>

\* The characters of a callSid of the model.
Chars(sid) ==
  CASE sid = "CA1" -> <<67, 65, 49>>
    [] OTHER -> <<110, 117, 108, 108>>

\* `analysis_${callSid}_${timestamp}.json`
AnalysisFilename(sid, timestamp) ==
  StrAnalysis \o sid \o <<95>> \o timestamp \o StrJson

\* new Date().toISOString().replace(/[:.]/g, '-') at a save: a fixed-width
\* text that grows with the clock; here one digit, "1" at the first save.
TimestampNow == <<49 + Cardinality(files)>>

\* fs.writeFile settles: on success the file exists and the POST to the
\* storage endpoint is started; on failure the outer catch block runs.
AnalysisFileWritten(i) ==
  /\ ~crashed
  /\ analyses[i].pc = "write"
  /\ \/ /\ analyses' = [analyses EXCEPT ![i].pc = "post"]
        /\ posts' = Append(posts, [by |-> i, data |-> analyses[i].analysisData,
                                   status |-> "pending", slot |-> ""])
        /\ files' = files \cup {[callSid |-> Chars(callSid),
                                  timestamp |-> TimestampNow]}
     \/ /\ analyses' = [analyses EXCEPT ![i] = CatchBlock(analyses[i])]
        /\ UNCHANGED <<posts, files>>
  /\ UNCHANGED <<httpVars, streamParameters, ws, sessionVars, bridgeVars,
                 eventCounters, gradingRequests, store, crashed>>
  /\ UNCHANGED <<agentCall, lastPoll, getReply, pingsIn, lastPing, stopLog,
                 eventVars>>

\* --------------------------------------- storage endpoint: POST /api/analysis
\* The scenario the handler files the payload under: data.scenarioId, or a
\* match of the scenario name when that is falsy; Undefined when neither.
ScenarioSlot(data) ==
  IF Truthy(data.scenarioId)
    THEN data.scenarioId
    ELSE CASE Includes(data.scenario, "John Smith") -> 1
           [] Includes(data.scenario, "Sarah Johnson") -> 2
           [] Includes(data.scenario, "Michael Chen") -> 3
           [] OTHER -> Undefined

\* analyses[scenarioId] = {...data}
StoreUnder(stored, key, data) ==
  [k \in DOMAIN stored \cup {key} |-> IF k = key THEN data ELSE stored[k]]

\* The POST of analysis i settles: the fetch fails, or the storage endpoint
\* handled it (400 when no scenario is identified, else stored and 200). Either way analyzeConversation returns.
FrontendReply(i) ==
  /\ ~crashed
  /\ analyses[i].pc = "post"
  /\ analyses' = [analyses EXCEPT ![i].pc = "done"]
  /\ LET k == CHOOSE n \in DOMAIN posts : posts[n].by = i
         data == posts[k].data
         slot == ScenarioSlot(data)
     IN \/ /\ posts' = [posts EXCEPT ![k].status = "fetch failed"]
           /\ UNCHANGED store
        \/ /\ ~Truthy(slot)
           /\ posts' = [posts EXCEPT ![k].status = "400"]
           /\ UNCHANGED store
        \/ /\ Truthy(slot)
           /\ posts' = [posts EXCEPT ![k].status = "200",
                                     ![k].slot = NumToStr(slot)]
           /\ store' = StoreUnder(store, NumToStr(slot), data)
  /\ UNCHANGED <<httpVars, streamParameters, ws, sessionVars, bridgeVars,
                 eventCounters, gradingRequests, crashed>>
  /\ UNCHANGED <<otherVars, stopLog>>


\* ------------------------------------------------- getAgentIdForScenario
\* The default agent of the deployment.
ELEVENLABS_AGENT_ID == "agentDefault"

\* s.trim() for the strings of the model.
Trim(s) ==
  CASE s = " " -> ""
    [] s = " 1" -> "1"
    [] s = " agentB " -> "agentB"
    [] OTHER -> s

\* process.env[`ELEVENLABS_AGENT_ID_${id}`]: undefined for a key that is unset.
EnvGet(env, id) == IF id \in DOMAIN env THEN env[id] ELSE Absent

\* Mutant of getAgentIdForScenario: the identifier is looked up untrimmed.
getAgentIdForScenarioUntrimmed(scenarioId, env) ==
  LET id == OrElse(scenarioId, "")
      perScenario == EnvGet(env, id)
  IN  IF id = ""
        THEN ELEVENLABS_AGENT_ID
        ELSE IF OrElse(perScenario, "") # "" /\ Trim(perScenario) # ""
               THEN Trim(perScenario)
               ELSE ELEVENLABS_AGENT_ID

getAgentIdForScenario(scenarioId, env) ==
  LET id == Trim(OrElse(scenarioId, ""))
      perScenario == EnvGet(env, id)
  IN  IF id = ""
        THEN ELEVENLABS_AGENT_ID
        ELSE IF OrElse(perScenario, "") # "" /\ Trim(perScenario) # ""
               THEN Trim(perScenario)
               ELSE ELEVENLABS_AGENT_ID

\* The scenario identifiers a call passes, and the values a per-scenario
\* variable of the environment may hold (Absent: unset).
AgentScenarioIds == {Absent, "", " ", "0", "1", " 1", "2", "9"}
AgentEnvValues == {Absent, "", " ", "agentA", " agentB "}

\* One call of getAgentIdForScenario.
CallGetAgentIdForScenario ==
  /\ ~agentCall.done
  /\ agentCall' =
       [agentCall EXCEPT
          !.result = getAgentIdForScenario(agentCall.scenarioId, agentCall.env),
          !.done = TRUE]
  /\ UNCHANGED <<callVars, lastPoll, files, getReply, pingsIn, lastPing,
                 eventVars>>


\* ---------------------------------------- storage endpoint: GET /api/analysis
\* The ids the page polls with, and an id parameter that is missing.
PollIds == {"", "1", "2"}

\* The record a run of scenario 1 before this one left in analysis_data.json.
EarlierResult ==
  [scenario |-> "John Smith - Chest Pain", scenarioId |-> 1, score |-> 3,
   final_recommendation |-> "Repeat the scenario.", pass_fail |-> "FAIL"]

\* The scenario the page marked "in call" when it started this call.
CallScenario ==
  IF httpReply = 200 /\ request.scenarioId.kind = "number"
    THEN NumToStr(request.scenarioId.num)
    ELSE Absent

\* This call's result has been stored under scenario id.
PublishedFor(id) ==
  \E k \in DOMAIN posts : posts[k].status = "200" /\ posts[k].slot = id

\* The GET handler: 400 without an id, the stored record of the id when
\* there is one, 404 otherwise.
AnalysisGet(id) ==
  [id |-> id,
   status |-> IF id = "" THEN 400 ELSE IF id \in DOMAIN store THEN 200 ELSE 404,
   data |-> IF id # "" /\ id \in DOMAIN store THEN store[id] ELSE NoData,
   forCall |-> id = CallScenario,
   published |-> PublishedFor(id)]

\* The page polls the storage endpoint while a scenario is "in call".
Poll ==
  /\ httpReply = 200
  /\ \E id \in PollIds : lastPoll' = AnalysisGet(id)
  /\ UNCHANGED <<callVars, agentCall, files, getReply, pingsIn, lastPing,
                 eventVars>>


\* -------------------------------------------------- GET /analysis/:callSid
\* a < b in the order of Array.prototype.sort: by code unit, a proper prefix
\* first.
RECURSIVE Less(_, _)
Less(a, b) ==
  IF a = <<>> THEN b # <<>>
  ELSE IF b = <<>> THEN FALSE
  ELSE IF Head(a) # Head(b) THEN Head(a) < Head(b)
  ELSE Less(Tail(a), Tail(b))

\* f.startsWith(p)
StartsWith(f, p) == Len(f) >= Len(p) /\ SubSeq(f, 1, Len(p)) = p

FileName(f) == AnalysisFilename(f.callSid, f.timestamp)

\* files.filter(f => f.startsWith(`analysis_${callSid}`))
AnalysisFiles(sid) ==
  {f \in files : StartsWith(FileName(f), StrAnalysis \o sid)}

\* analysisFiles.sort().reverse()[0]
LatestOf(fs) ==
  CHOOSE f \in fs : \A g \in fs : g = f \/ Less(FileName(g), FileName(f))

\* The handler: 404 when no file name matches, else the content of the
\* file whose name sorts last.
AnalysisOfCall(sid) ==
  IF AnalysisFiles(sid) = {}
    THEN [callSid |-> sid, status |-> 404, file |-> NoFile]
    ELSE [callSid |-> sid, status |-> 200, file |-> LatestOf(AnalysisFiles(sid))]

\* Call identifiers with saved analyses ("CA1", "CA12", "CA1a"), the
\* timestamps of the saves ("1", "2"), and the identifiers requested (those
\* and "CA9").
SavedCallSids == {<<67, 65, 49>>, <<67, 65, 49, 50>>, <<67, 65, 49, 97>>}
Timestamps == {<<49>>, <<50>>}
RequestedCallSids == SavedCallSids \cup {<<67, 65, 57>>}

GetAnalysis ==
  /\ \E sid \in RequestedCallSids : getReply' = AnalysisOfCall(sid)
  /\ UNCHANGED <<callVars, agentCall, lastPoll, files, pingsIn, lastPing,
                 eventVars>>


\* ---------------------------------------------------------- case 'ping'
\* The event ids a ping may carry.
PingEventIds == {0, 1}

\* { type: 'pong', event_id } as sent on socket target; the event id is in
\* the number field of the message record.
Pong(target, id) ==
  [sock |-> target, type |-> "pong", prompt |-> "", first_message |-> "",
   frame |-> id]

\* if (message.ping_event?.event_id) elevenLabsWs.send(pong)
ElSentAfterPing(id) ==
  IF Truthy(id) /\ ElevenLabsOpenNow
    THEN Append(elSent, Pong(elevenLabsWs, id))
    ELSE elSent

\* A ping arrives on socket s. A truthy event id is answered with a pong
\* sent on the closure variable elevenLabsWs: send() throws while that socket
\* is CONNECTING (caught and logged by the message handler) and discards the
\* data when it is closing or closed.
ElevenLabsPing(s) ==
  /\ ~crashed
  /\ sockets[s] \in {"OPEN", "CLOSING"}
  /\ pingsIn < MaxPings
  /\ pingsIn' = pingsIn + 1
  /\ \E id \in PingEventIds :
       /\ lastPing' = [sock |-> s, event_id |-> id]
       /\ elSent' = ElSentAfterPing(id)
  /\ UNCHANGED <<httpVars, streamParameters, ws, sessionVars, sockets,
                 setupPending, gradingVars, eventCounters, crashed, stopLog>>
  /\ UNCHANGED <<agentCall, lastPoll, files, getReply, eventVars>>


\* ------------------------------- elevenLabsWs.on('message'): the other cases
\* if (streamSid): null, undefined and '' are falsy.
Known(sid) == sid \notin {Null, Absent, ""}

\* ws.send(frame) on the media-stream websocket: a socket that is no longer
\* open discards the data.
WsSend(frame) == IF ws = "open" THEN Append(twSent, frame) ELSE twSent

\* The media frame built for audio event n, and the clear frame.
MediaFrame(n) == [event |-> "media", streamSid |-> streamSid, payload |-> n]

\* Mutant of ClearFrame: the frame does not name the stream.
ClearFrameUntagged == [event |-> "clear", streamSid |-> Absent, payload |-> 0]

ClearFrame == [event |-> "clear", streamSid |-> streamSid, payload |-> 0]

\* The message types of ElevenLabs ("client_tool_call" stands for the types
\* the switch does not name), and what a message carries: for an audio event
\* where its audio is (audio.chunk, audio_event.audio_base_64 or nowhere),
\* for a transcript event its text, for a ping its event id.
VoiceEventTypes ==
  {"conversation_initiation_metadata", "audio", "interruption", "ping",
   "agent_response", "user_transcript", "client_tool_call"}
TranscriptTypes == {"agent_response", "user_transcript"}
VoiceEventTexts(type) ==
  CASE type = "audio" -> {"chunk", "audio_base_64", ""}
    [] type \in TranscriptTypes -> {"", "Please hurry."}
    [] type = "ping" -> {"1"}
    [] OTHER -> {""}

\* The turn a transcript event pushes.
Turn(type, text) ==
  [role |-> IF type = "agent_response" THEN "assistant" ELSE "user",
   content |-> text]

\* Mutant of TwSentAfter: audio that arrives before a stream identifier is
\* known is sent all the same.
TwSentAfterUnguarded(type, text, n) ==
  CASE type = "audio" /\ text # "" -> WsSend(MediaFrame(n))
    [] type = "interruption" /\ Known(streamSid) -> WsSend(ClearFrame)
    [] OTHER -> twSent

\* What the switch sends to Twilio for event number n.
TwSentAfter(type, text, n) ==
  CASE type = "audio" /\ Known(streamSid) /\ text # "" -> WsSend(MediaFrame(n))
    [] type = "interruption" /\ Known(streamSid) -> WsSend(ClearFrame)
    [] OTHER -> twSent

\* Mutant of HistoryAfter: the agent's audio is noted in the transcript too.
HistoryAfterAudio(type, text) ==
  IF (type \in TranscriptTypes \/ type = "audio") /\ text # ""
    THEN Append(conversationHistory, Turn(type, text))
    ELSE conversationHistory

\* What the switch does to the transcript.
\* Mutant of HistoryAfter: the default case records the event as a turn.
HistoryAfterDefault(type, text) ==
  IF type \in TranscriptTypes /\ text # ""
    THEN Append(conversationHistory, Turn(type, text))
    ELSE IF type = "client_tool_call"
           THEN Append(conversationHistory, Turn(type, type))
           ELSE conversationHistory

HistoryAfter(type, text) ==
  IF type \in TranscriptTypes /\ text # ""
    THEN Append(conversationHistory, Turn(type, text))
    ELSE conversationHistory

\* 'message' of socket s, the whole switch. Messages are still delivered
\* while the socket is closing.
ElevenLabsMessage(s) ==
  /\ ~crashed
  /\ sockets[s] \in {"OPEN", "CLOSING"}
  /\ eventsIn < MaxEvents
  /\ eventsIn' = eventsIn + 1
  /\ \E type \in VoiceEventTypes :
       \E text \in VoiceEventTexts(type) :
         /\ lastEvent' = [leg |-> "elevenlabs", sock |-> s, type |-> type,
                          text |-> text]
         /\ twSent' = TwSentAfter(type, text, eventsIn + 1)
         /\ conversationHistory' = HistoryAfter(type, text)
         /\ elSent' = IF type = "ping" THEN ElSentAfterPing(JSNumber(text))
                                       ELSE elSent
  /\ UNCHANGED <<httpVars, streamParameters, ws, streamSid, callSid,
                 customParameters, elevenLabsWs, sockets, setupPending,
                 gradingVars, eventCounters, crashed, stopLog>>
  /\ UNCHANGED <<agentCall, lastPoll, files, getReply, pingsIn, lastPing,
                 sessions>>

\* ------------------------------------ ws.on('message'): the default case
\* Twilio events the switch does not name, and a message that is not JSON
\* (JSON.parse throws, the catch logs).
TwilioOtherEvents == {"connected", "mark", "<not JSON>"}

TwilioOther ==
  /\ ~crashed
  /\ ws = "open"
  /\ eventsIn < MaxEvents
  /\ eventsIn' = eventsIn + 1
  /\ \E type \in TwilioOtherEvents :
       lastEvent' = [leg |-> "twilio", sock |-> 0, type |-> type, text |-> ""]
  /\ UNCHANGED <<callVars, agentCall, lastPoll, files, getReply, pingsIn,
                 lastPing, twSent, sessions>>


\* ------------------------------------------------- concurrent call sessions
\* Every connection to /outbound-media-stream runs the route handler once,
\* and the handler's let-variables are that connection's own. A session is
\* the record of those variables; setupPending counts its runs of
\* setupElevenLabs that await getSignedUrl, and opened holds the ElevenLabs
\* sockets created in its closure (their listeners use its variables).
NewSession ==
  [streamSid |-> Null, callSid |-> Null, elevenLabsWs |-> 0,
   customParameters |-> NullParameters, conversationHistory |-> <<>>,
   setupPending |-> 0, opened |-> {}]

StreamSids == <<"MZ1", "MZ2", "MZ3", "MZ4">>
CallSids == <<"CA1", "CA2", "CA3", "CA4">>

SessionParameters ==
  { [prompt |-> "You are John Smith.", first_message |-> "Help, fire!",
     scenarioId |-> "1"],
    [prompt |-> "You are Sarah Johnson.", first_message |-> "",
     scenarioId |-> "2"] }

Handles == UNION {sessions[j].opened : j \in DOMAIN sessions}

OwnerOf(ss, h) == CHOOSE j \in DOMAIN ss : h \in ss[j].opened

sessionRest ==
  <<callVars, agentCall, lastPoll, files, getReply, pingsIn, lastPing, twSent>>

\* A new connection on the media-stream route.
SessionConnect ==
  /\ Len(sessions) < MaxSessions
  /\ sessions' = Append(sessions, NewSession)
  /\ lastEvent' = [leg |-> "twilio", sock |-> Len(sessions) + 1,
                   type |-> "connection", text |-> ""]
  /\ UNCHANGED <<sessionRest, eventsIn>>

\* case 'start' on connection j.
SessionStart(j) ==
  /\ eventsIn < MaxSessionEvents
  /\ eventsIn' = eventsIn + 1
  /\ \E parameters \in SessionParameters :
       sessions' =
         [sessions EXCEPT ![j] =
            [@ EXCEPT !.streamSid = StreamSids[j],
                      !.callSid = CallSids[j],
                      !.customParameters = parameters,
                      !.conversationHistory = @ \o SeedTurns(parameters),
                      !.setupPending = @ + 1]]
  /\ lastEvent' = [leg |-> "twilio", sock |-> j, type |-> "start", text |-> ""]
  /\ UNCHANGED sessionRest

\* getSignedUrl answered a setup of connection j: the new socket becomes
\* that closure's elevenLabsWs.
SessionSignedUrlResolved(j) ==
  /\ eventsIn < MaxSessionEvents
  /\ eventsIn' = eventsIn + 1
  /\ sessions[j].setupPending > 0
  /\ LET h == Cardinality(Handles) + 1 IN
       /\ sessions' =
            [sessions EXCEPT ![j] =
               [@ EXCEPT !.elevenLabsWs = h,
                         !.opened = @ \cup {h},
                         !.setupPending = @ - 1]]
       /\ lastEvent' = [leg |-> "elevenlabs", sock |-> h,
                        type |-> "open", text |-> ""]
  /\ UNCHANGED sessionRest

\* Mutant of SessionsAfterMessage: one transcript shared by all connections.
SessionsAfterMessageShared(h, type, text) ==
  [j \in DOMAIN sessions |->
     [sessions[j] EXCEPT !.conversationHistory =
        IF type \in TranscriptTypes /\ text # ""
          THEN Append(@, Turn(type, text)) ELSE @]]

\* The message listener of socket h pushes onto the conversationHistory of
\* the closure that created the socket.
SessionsAfterMessage(h, type, text) ==
  [sessions EXCEPT ![OwnerOf(sessions, h)].conversationHistory =
     IF type \in TranscriptTypes /\ text # ""
       THEN Append(@, Turn(type, text)) ELSE @]

\* An ElevenLabs event on socket h.
SessionMessage(h) ==
  /\ eventsIn < MaxSessionEvents
  /\ eventsIn' = eventsIn + 1
  /\ \E type \in TranscriptTypes \cup {"audio"} :
       \E text \in {"Please hurry."} :
         /\ sessions' = SessionsAfterMessage(h, type, text)
         /\ lastEvent' = [leg |-> "elevenlabs", sock |-> h,
                          type |-> type, text |-> text]
  /\ UNCHANGED sessionRest

\* case 'stop' on connection j: the closure's variables are read (grading,
\* close of its socket), none is assigned.
SessionStop(j) ==
  /\ eventsIn < MaxSessionEvents
  /\ eventsIn' = eventsIn + 1
  /\ lastEvent' = [leg |-> "twilio", sock |-> j, type |-> "stop", text |-> ""]
  /\ UNCHANGED <<sessionRest, sessions>>


\* ------------------------- storage endpoint: POST /api/analysis, by its awaits
\* The payloads that reach the endpoint: results of the three scenario names
\* and of an unnamed one, with a scenarioId or without.
StorePayloads ==
  { ParseFallback(name, sid) :
      name \in {NameJohn, NameSarah, "Unknown scenario"},
      sid \in {Undefined, 1, 2} }

\* A POST the endpoint has received and not yet looked at.
PendingPost(k, data) ==
  [by |-> k, data |-> data, status |-> "pending", slot |-> "", read |-> <<>>]

storeRest ==
  <<httpVars, streamParameters, ws, sessionVars, bridgeVars, eventCounters,
    analyses, gradingRequests, crashed, otherVars, stopLog>>

\* Mutant of StoreReceive: a payload that names no scenario is filed under
\* scenario 1.
StoreReceiveDefaultSlot(k) ==
  /\ posts[k].status = "pending"
  /\ LET slot == ScenarioSlot(posts[k].data) IN
       posts' = [posts EXCEPT ![k].status = "reading",
                              ![k].slot = IF Truthy(slot) THEN NumToStr(slot)
                                                          ELSE "1"]
  /\ UNCHANGED <<store, storeRest>>

\* POST up to its await of getStoredAnalyses: the scenario is taken from the
\* payload, and without one the reply is 400.
StoreReceive(k) ==
  /\ posts[k].status = "pending"
  /\ LET slot == ScenarioSlot(posts[k].data) IN
       posts' = IF Truthy(slot)
                  THEN [posts EXCEPT ![k].status = "reading",
                                     ![k].slot = NumToStr(slot)]
                  ELSE [posts EXCEPT ![k].status = "400"]
  /\ UNCHANGED <<store, storeRest>>

\* getStoredAnalyses resolves with the content of analysis_data.json; the
\* handler adds its record to that object and starts fs.writeFile.
StoreRead(k) ==
  /\ posts[k].status = "reading"
  /\ posts' = [posts EXCEPT ![k].status = "writing", ![k].read = store]
  /\ UNCHANGED <<store, storeRest>>

\* fs.writeFile settles: the file now holds the object the handler read plus
\* its record and the reply is 200, or the write failed and the reply is 500.
StoreWrite(k) ==
  /\ posts[k].status = "writing"
  /\ \/ /\ store' = StoreUnder(posts[k].read, posts[k].slot, posts[k].data)
        /\ posts' = [posts EXCEPT ![k].status = "200"]
     \/ /\ posts' = [posts EXCEPT ![k].status = "500"]
        /\ UNCHANGED store
  /\ UNCHANGED storeRest

\* ------------------------------------------------------------ specification
\* The whole system.
Next ==
  \/ OutboundCall
  \/ OutboundCallTwiml
  \/ MediaStreamConnect
  \/ TwilioStart
  \/ TwilioMedia
  \/ TwilioStop /\ UNCHANGED stopLog
  \/ TwilioClose
  \/ SignedUrlResolved
  \/ SignedUrlFailed
  \/ \E s \in DOMAIN sockets : ElevenLabsOpen(s)
  \/ \E s \in DOMAIN sockets : ElevenLabsClosed(s)
  \/ \E s \in DOMAIN sockets : ElevenLabsTranscript(s)
  \/ \E i \in DOMAIN analyses : GradingReply(i) /\ UNCHANGED gradingInputs
  \/ \E i \in DOMAIN analyses : AnalysisFileWritten(i)
  \/ \E i \in DOMAIN analyses : FrontendReply(i)

Spec == Init /\ [][Next]_vars

\* The call session and its voice bridge. The three steps of
\* analyzeConversation after its first await read and write only analyses,
\* posts and store, so leaving them out changes no reachable value of any
\* other variable: every invocation stays at its grading request.
NextBridge ==
  \/ OutboundCall
  \/ OutboundCallTwiml
  \/ MediaStreamConnect
  \/ TwilioStart
  \/ TwilioMedia
  \/ TwilioStop /\ UNCHANGED stopLog
  \/ TwilioClose
  \/ SignedUrlResolved
  \/ SignedUrlFailed
  \/ \E s \in DOMAIN sockets : ElevenLabsOpen(s)
  \/ \E s \in DOMAIN sockets : ElevenLabsClosed(s)
  \/ \E s \in DOMAIN sockets : ElevenLabsTranscript(s)

SpecBridge == Init /\ [][NextBridge]_vars

\* The call session and its grading pipeline. The ElevenLabs side is left
\* out (every setupElevenLabs stays at its await of getSignedUrl): of its
\* steps only the transcript events write a variable the pipeline reads,
\* conversationHistory, and they leave it non-empty and keep its first turns.
NextGrading ==
  \/ OutboundCall
  \/ OutboundCallTwiml
  \/ MediaStreamConnect
  \/ TwilioStart
  \/ TwilioStop /\ UNCHANGED stopLog
  \/ TwilioClose
  \/ \E i \in DOMAIN analyses : GradingReply(i) /\ UNCHANGED gradingInputs
  \/ \E i \in DOMAIN analyses : AnalysisFileWritten(i)
  \/ \E i \in DOMAIN analyses : FrontendReply(i)

SpecGrading == Init /\ [][NextGrading]_vars


\* getAgentIdForScenario on its own: any scenario identifier under any
\* environment.
InitAgent ==
  /\ InitSession
  /\ posts = <<>>
  /\ store = <<>>
  /\ files = {}
  /\ \E id \in AgentScenarioIds, env \in [AgentKeys -> AgentEnvValues] :
       agentCall = [scenarioId |-> id, env |-> env, result |-> Absent,
                    done |-> FALSE]

NextAgent == CallGetAgentIdForScenario

SpecAgent == InitAgent /\ [][NextAgent]_vars


\* The grading pipeline with its awaits settling: the grading request, the
\* file write and the POST each resolve or reject (the HTTP clients time
\* out), so a step that is waiting for one is eventually taken.
FairSpecGrading ==
  /\ SpecGrading
  /\ \A i \in 1..MaxStops :
       /\ WF_vars(i \in DOMAIN analyses /\ GradingReply(i)
                    /\ UNCHANGED gradingInputs)
       /\ WF_vars(i \in DOMAIN analyses /\ AnalysisFileWritten(i))
       /\ WF_vars(i \in DOMAIN analyses /\ FrontendReply(i))


\* The grading pipeline with the page polling the storage endpoint, on a
\* first run or after an earlier run of scenario 1 (nothing removes a record
\* from analysis_data.json).
InitPoll ==
  /\ InitSession
  /\ posts = <<>>
  /\ store \in {<<>>, StoreUnder(<<>>, "1", EarlierResult)}
  /\ files = {}
  /\ agentCall = NoAgentCall

NextPoll == NextGrading \/ Poll

SpecPoll == InitPoll /\ [][NextPoll]_vars


\* GET /analysis/:callSid over any set of analysis files saved so far.
InitFiles ==
  /\ InitSession
  /\ posts = <<>>
  /\ store = <<>>
  /\ agentCall = NoAgentCall
  /\ files \in SUBSET [callSid : SavedCallSids, timestamp : Timestamps]

NextFiles == GetAnalysis

SpecFiles == InitFiles /\ [][NextFiles]_vars


\* The voice bridge with the keep-alive pings of ElevenLabs.
NextPing ==
  \/ NextBridge
  \/ \E s \in DOMAIN sockets : ElevenLabsPing(s)

SpecPing == Init /\ [][NextPing]_vars


\* The call session and the set-up and teardown of its voice connections,
\* with the statement order of the stop handler recorded. Media frames and
\* transcript events are left out: the stop handler reads neither elSent nor
\* the turns after the first of conversationHistory.
NextStop ==
  \/ OutboundCall
  \/ OutboundCallTwiml
  \/ MediaStreamConnect
  \/ TwilioStart
  \/ TwilioStop /\ stopEffects' = StopEffects /\ UNCHANGED gradingInputs
  \/ TwilioClose
  \/ SignedUrlResolved
  \/ SignedUrlFailed
  \/ \E s \in DOMAIN sockets : ElevenLabsOpen(s)
  \/ \E s \in DOMAIN sockets : ElevenLabsClosed(s)

SpecStop == Init /\ [][NextStop]_vars


\* The call session with the events of both legs that the other
\* specifications leave out, a start event that lacks its streamSid included.
\* Stop events, media frames and failed signed-URL requests are left out:
\* the handlers of these events read nothing that those write, but for
\* elSent, which only the pong of this specification extends.
NextEvents ==
  \/ OutboundCall
  \/ OutboundCallTwiml
  \/ MediaStreamConnect
  \/ \E sid \in {"MZ1", Absent} : TwilioStartWith(sid)
  \/ TwilioClose
  \/ TwilioOther
  \/ SignedUrlResolved
  \/ \E s \in DOMAIN sockets : ElevenLabsOpen(s)
  \/ \E s \in DOMAIN sockets : ElevenLabsClosed(s)
  \/ \E s \in DOMAIN sockets : ElevenLabsMessage(s)

SpecEvents == Init /\ [][NextEvents]_vars


\* The bridge with a longer run of media frames, so that their order on the
\* ElevenLabs leg can be observed.
NextMedia ==
  \/ OutboundCall
  \/ OutboundCallTwiml
  \/ MediaStreamConnect
  \/ TwilioStart
  \/ TwilioMediaUpTo(MaxFrames)
  \/ TwilioClose
  \/ SignedUrlResolved
  \/ \E s \in DOMAIN sockets : ElevenLabsOpen(s)
  \/ \E s \in DOMAIN sockets : ElevenLabsClosed(s)

SpecMedia == Init /\ [][NextMedia]_vars


\* Several media-stream connections at once, their events interleaved.
NextSessions ==
  \/ SessionConnect
  \/ \E j \in DOMAIN sessions : SessionStart(j)
  \/ \E j \in DOMAIN sessions : SessionSignedUrlResolved(j)
  \/ \E h \in Handles : SessionMessage(h)
  \/ \E j \in DOMAIN sessions : SessionStop(j)

SpecSessions == Init /\ [][NextSessions]_vars


\* The session with its transcript events and the grading pipeline up to the
\* file write; the history variable gradingInputs records what each
\* invocation rendered and what it serialized for the file.
NextTranscript ==
  \/ OutboundCall
  \/ OutboundCallTwiml
  \/ MediaStreamConnect
  \/ TwilioStart
  \/ TwilioStop /\ UNCHANGED stopEffects
       /\ gradingInputs' = GradingInputsAfterStop
  \/ SignedUrlResolved
  \/ \E s \in DOMAIN sockets : ElevenLabsOpen(s)
  \/ \E s \in DOMAIN sockets : ElevenLabsTranscript(s)
  \/ \E i \in DOMAIN analyses :
       GradingReply(i) /\ gradingInputs' = GradingInputsAfterReply(i)
  \/ \E i \in DOMAIN analyses : AnalysisFileWritten(i)

SpecTranscript == Init /\ [][NextTranscript]_vars


\* The storage endpoint on its own: up to MaxPosts POSTs in flight at once,
\* on an empty store or after an earlier run of scenario 1.
InitStore ==
  /\ InitSession
  /\ store \in {<<>>, StoreUnder(<<>>, "1", EarlierResult)}
  /\ files = {}
  /\ agentCall = NoAgentCall
  /\ \E n \in 1..MaxPosts :
       \E payloads \in [1..n -> StorePayloads] :
         posts = [k \in 1..n |-> PendingPost(k, payloads[k])]

NextStore ==
  \/ \E k \in DOMAIN posts : StoreReceive(k)
  \/ \E k \in DOMAIN posts : StoreRead(k)
  \/ \E k \in DOMAIN posts : StoreWrite(k)

SpecStore == InitStore /\ [][NextStore]_vars

\* ------------------------------------------------------------------ claims
\* C1: two (or more) stop events on one stream after a start trigger exactly
\* one grading request and exactly one POST of a result; the later stop
\* events are no-ops.
C1_OneGradingPerSession == gradingRequests <= 1 /\ Len(posts) <= 1

\* An invocation that has ended: it returned or its promise rejected.
Ended(a) == a.pc \in {"done", "rejected"}

\* C2: when the grading request throws, a fallback result is still
\* synthesized and a POST of it to the storage endpoint is attempted: no
\* invocation whose grading request threw ends without a POST.
C2_FallbackPostedWhenGradingThrows ==
  \A i \in DOMAIN analyses :
    (analyses[i].outcome = "threw" /\ Ended(analyses[i]))
      => \E k \in DOMAIN posts : posts[k].by = i

\* C3: every session that reached the start event has a result published on
\* every way it can end (a stop event, or the connection closing without
\* one): once the stream is closed and no invocation is still running, a
\* result has been posted.
C3_ResultPublishedWhenSessionOver ==
  (starts > 0 /\ ws = "closed" /\ \A i \in DOMAIN analyses : Ended(analyses[i]))
    => Len(posts) >= 1

\* The scenarioId of a result equals the scenarioId of the request body.
SameScenarioId(stored, sid) ==
  CASE sid.kind = "number" -> stored = sid.num
    [] sid.kind = "string" -> stored # Undefined /\ NumToStr(stored) = sid.str
    [] OTHER -> stored = Undefined

\* C4: for every scenarioId a request can carry (0 and non-numeric strings
\* included) and every value the grading model returns, the scenarioId of
\* the result that is posted and stored equals the request's scenarioId.
C4_StoredScenarioIdIsRequested ==
  \A k \in DOMAIN posts :
    (request.scenarioId.kind # "undefined" /\ posts[k].status = "200")
      => SameScenarioId(posts[k].data.scenarioId, request.scenarioId)

\* The recommendation texts that say the analysis failed.
MentionsAnalysisFailure(text) ==
  text \in
    { "Please review the raw conversation transcript as automated analysis failed.",
      "Call completed but analysis failed. Please configure a valid OpenAI API key in outbound/.env to enable call analysis." }

\* The posts of results of scenario 1 whose grading reply was not JSON.
NonJsonPostsOfScenario1 ==
  { k \in DOMAIN posts :
      /\ analyses[posts[k].by].outcome = "nonjson"
      /\ request.scenarioId = SidNumber(1) }

\* C5 (as amended): when the grading service returns text that is not JSON
\* for a session whose scenarioId is 1, the result posted has pass_fail FAIL,
\* overall score 5, a final recommendation saying the analysis failed and
\* scenarioId 1, and is stored under scenario 1.
C5_ParseFallbackOfScenario1 ==
  \A k \in NonJsonPostsOfScenario1 :
    /\ posts[k].data.pass_fail = "FAIL"
    /\ posts[k].data.score = 5
    /\ MentionsAnalysisFailure(posts[k].data.final_recommendation)
    /\ posts[k].data.scenarioId = 1
    /\ posts[k].status = "200" => posts[k].slot = "1" /\ "1" \in DOMAIN store

\* C5 as claimed: the same with an overall score of 0.
C5_AsClaimedScoreZero ==
  \A k \in NonJsonPostsOfScenario1 :
    /\ posts[k].data.pass_fail = "FAIL"
    /\ posts[k].data.score = 0
    /\ MentionsAnalysisFailure(posts[k].data.final_recommendation)
    /\ posts[k].data.scenarioId = 1

\* C5 witness: such a result was posted and stored.
C5_Witness == \E k \in NonJsonPostsOfScenario1 : posts[k].status = "200"

\* The invocations that took a fallback path and hold a result object.
FallbackResults ==
  { i \in DOMAIN analyses :
      /\ analyses[i].outcome \in {"nonjson", "threw"}
      /\ \/ analyses[i].pc \in {"write", "post", "done"}
         \/ analyses[i].pc = "rejected" /\ analyses[i].outcome = "nonjson" }

\* C6: every result produced by a fallback path has pass_fail FAIL and a
\* non-empty final recommendation, as built and as posted.
C6_FallbackIsFail ==
  /\ \A i \in FallbackResults :
       /\ analyses[i].analysisData.pass_fail = "FAIL"
       /\ analyses[i].analysisData.final_recommendation # ""
  /\ \A k \in DOMAIN posts :
       analyses[posts[k].by].outcome \in {"nonjson", "threw"}
         => /\ posts[k].data.pass_fail = "FAIL"
            /\ posts[k].data.final_recommendation # ""

\* C6 witness: a fallback result was built and posted.
C6_Witness ==
  \E k \in DOMAIN posts :
    posts[k].by \in FallbackResults /\ analyses[posts[k].by].outcome = "nonjson"

\* C7: at most one ElevenLabs connection of the session is connecting or
\* open, whatever events arrive on the stream, a repeated start included.
C7_AtMostOneLiveConnection ==
  Cardinality({s \in DOMAIN sockets : sockets[s] \in {"CONNECTING", "OPEN"}}) <= 1

C9_MediaForwardedIffOpen ==
  [][mediaIn' # mediaIn =>
       /\ IF elevenLabsWs # 0 /\ sockets[elevenLabsWs] = "OPEN"
            THEN elSent' = Append(elSent,
                     [sock |-> elevenLabsWs, type |-> "user_audio_chunk",
                      prompt |-> "", first_message |-> "", frame |-> mediaIn'])
            ELSE elSent' = elSent
       /\ UNCHANGED <<sessionVars, sockets, setupPending, gradingVars, ws,
                      crashed>>]_vars

\* C9 witness: a frame arrived while a socket existed that was not open, and
\* nothing was sent for it.
C9_Witness ==
  /\ mediaIn = 1
  /\ elevenLabsWs # 0
  /\ sockets[elevenLabsWs] = "CONNECTING"
  /\ elSent = <<>>

\* C10: a start-call request without a number, or with an empty one, is
\* answered 400 and nothing is asked of Twilio or of any other service.
C10_MissingNumberRejected ==
  (httpReply # 0 /\ (request.number = Absent \/ request.number = ""))
    => /\ httpReply = 400
       /\ twilioCalls = 0
       /\ twimlUrl = NullParameters
       /\ ws = "none"
       /\ setupPending = 0
       /\ gradingRequests = 0
       /\ posts = <<>>

\* C10 witness: a request with an empty number was answered.
C10_Witness == httpReply = 400 /\ request.number = ""

\* C11: when the telephony provider's call creation fails, the start-call
\* request is answered 500 with { success: false, error: "Failed to initiate
\* call", detail: <the error's message> }, and no call session follows it: no
\* stream connects or starts, no voice connection is set up, nothing is graded.
C11_CreationFailureAnswered500 ==
  (twilioCalls > 0 /\ twimlUrl = NullParameters)
    => /\ httpReply = 500
       /\ httpBody.success = "false"
       /\ httpBody.error = "Failed to initiate call"
       /\ httpBody.detail \in {"Authenticate", "Error"}
       /\ httpBody.message = Absent /\ httpBody.callSid = Absent
       /\ ws = "none" /\ streamParameters = NullParameters
       /\ starts = 0 /\ streamSid = Null
       /\ sockets = <<>> /\ setupPending = 0 /\ elevenLabsWs = 0
       /\ gradingRequests = 0 /\ analyses = <<>>

C11_Witness ==
  twilioCalls = 1 /\ httpReply = 500 /\ httpBody.detail = "Authenticate"

\* The per-scenario agent configured for a scenario identifier: the value of
\* the identifier's variable, when it holds one; Absent when there is none.
MappedAgent(scenarioId, env) ==
  IF scenarioId = Absent \/ Trim(scenarioId) \notin AgentKeys
       \/ env[Trim(scenarioId)] = Absent
    THEN Absent
    ELSE IF Trim(env[Trim(scenarioId)]) = "" THEN Absent
         ELSE Trim(env[Trim(scenarioId)])

\* C12: getAgentIdForScenario never fails; it returns the default agent for a
\* scenario identifier that is absent, empty or without a per-scenario
\* mapping, and the mapped agent for an identifier that has one.
C12_AgentSelected ==
  agentCall.done =>
    /\ agentCall.result \in {ELEVENLABS_AGENT_ID, "agentA", "agentB"}
    /\ (agentCall.scenarioId \in {Absent, "", " "}
          => agentCall.result = ELEVENLABS_AGENT_ID)
    /\ (MappedAgent(agentCall.scenarioId, agentCall.env) = Absent
          => agentCall.result = ELEVENLABS_AGENT_ID)
    /\ (MappedAgent(agentCall.scenarioId, agentCall.env) # Absent
          => agentCall.result
               = MappedAgent(agentCall.scenarioId, agentCall.env))

C12_Witness ==
  /\ agentCall.done
  /\ agentCall.scenarioId = " 1"
  /\ agentCall.env["1"] = " agentB "
  /\ agentCall.result = "agentB"

\* C13: once grading has been triggered it terminates, whatever the grading
\* request, the local save and the delivery of the result do: every
\* invocation of analyzeConversation eventually returns or rejects.
C13_GradingTerminates ==
  \A i \in 1..MaxStops :
    (i \in DOMAIN analyses) ~> (i \in DOMAIN analyses /\ Ended(analyses[i]))

\* C13 witness: an invocation returned although the delivery of its result
\* failed, and another ended through the catch block.
C13_Witness ==
  /\ \E i \in DOMAIN analyses, k \in DOMAIN posts :
       /\ analyses[i].pc = "done"
       /\ posts[k].by = i
       /\ posts[k].status = "fetch failed"
  /\ \E i \in DOMAIN analyses : analyses[i].pc = "rejected"

\* The POSTs to the storage endpoint made by invocation i.
PostsBy(i) == {k \in DOMAIN posts : posts[k].by = i}

\* C14: every grading attempt makes exactly one POST to the storage endpoint,
\* and the failure of that POST (a network error, a non-success status) is
\* only logged: no second POST, and the invocation returns the result it had.
C14_ExactlyOnePostPerAttempt ==
  \A i \in DOMAIN analyses :
    /\ Cardinality(PostsBy(i)) <= 1
    /\ Ended(analyses[i]) => Cardinality(PostsBy(i)) = 1
    /\ \A k \in PostsBy(i) :
         posts[k].status \in {"fetch failed", "400"}
           => /\ analyses[i].pc = "done"
              /\ analyses[i].analysisData = posts[k].data

\* C15: a poll for the scenario of the call in progress returns 404 until
\* that call's result has been published, also when the scenario was run
\* before; only then does it return a stored result.
C15_PollBeforePublication404 ==
  (lastPoll.forCall /\ ~lastPoll.published) => lastPoll.status = 404

\* The analyses saved for exactly the call identifier sid.
SavedFor(sid) == {f \in files : f.callSid = sid}

\* C16: GET /analysis/:callId answers 404 when no analysis was saved for that
\* call identifier and otherwise returns the most recently saved analysis of
\* exactly that call, whatever was saved for other calls.
C16_LatestAnalysisOfThatCall ==
  getReply.status # 0 =>
    IF SavedFor(getReply.callSid) = {}
      THEN getReply.status = 404
      ELSE /\ getReply.status = 200
           /\ getReply.file \in SavedFor(getReply.callSid)
           /\ \A g \in SavedFor(getReply.callSid) :
                g = getReply.file \/ Less(g.timestamp, getReply.file.timestamp)

\* C17: once the session has ended, by a stop event or by the media stream
\* closing, none of its ElevenLabs connections is open, then or later,
\* however the end interleaves with setupElevenLabs.
C17_NoConnectionOpenAfterEnd ==
  (stops > 0 \/ ws = "closed")
    => \A s \in DOMAIN sockets : sockets[s] # "OPEN"

\* The initiation events and the user_audio_chunk events sent on socket s, by
\* their position in the order of sending.
ConfigsOn(s) ==
  {k \in DOMAIN elSent :
     elSent[k].sock = s /\ elSent[k].type = "conversation_initiation_client_data"}
AudioOn(s) ==
  {k \in DOMAIN elSent : elSent[k].sock = s /\ elSent[k].type = "user_audio_chunk"}

\* C18: every ElevenLabs connection that has opened was sent exactly one
\* initiation event, with the prompt and first message of the call, and no
\* user_audio_chunk was sent on it before that event.
C18_OneInitiationBeforeAudio ==
  \A s \in DOMAIN sockets :
    /\ Cardinality(ConfigsOn(s)) <= 1
    /\ sockets[s] \in {"OPEN", "CLOSING"} => Cardinality(ConfigsOn(s)) = 1
    /\ \A k \in ConfigsOn(s) : elSent[k] = InitialConfig(s)
    /\ \A a \in AudioOn(s) : \E k \in ConfigsOn(s) : k < a

\* C19 as claimed: on a stop event that both closes the ElevenLabs connection
\* and grades, the connection is closed before the transcript is handed to
\* analyzeConversation.
C19_AsClaimedCloseBeforeGrading ==
  [][(stops' = stops + 1 /\ Len(conversationHistory) > 0 /\ ElevenLabsOpenNow)
       => stopEffects' = <<"close", "analyzeConversation">>]_vars

\* C19: on a stop event the transcript and parameters are handed to
\* analyzeConversation first (when the transcript is non-empty), and the
\* ElevenLabs connection is closed after that (when it is open), in the same
\* handler run.
C19_GradingBeforeClose ==
  [][stops' = stops + 1
       => /\ stopEffects' =
               (IF Len(conversationHistory) > 0
                  THEN <<"analyzeConversation">> ELSE <<>>)
                 \o (IF ElevenLabsOpenNow THEN <<"close">> ELSE <<>>)
          /\ (Len(conversationHistory) > 0
                => /\ Len(analyses') = Len(analyses) + 1
                   /\ gradingRequests' = gradingRequests + 1)
          /\ (ElevenLabsOpenNow => sockets'[elevenLabsWs] = "CLOSING")]_vars

\* C19 witness: a stop event found the connection open and a transcript to
\* grade.
C19_Witness ==
  /\ stopEffects = <<"analyzeConversation", "close">>
  /\ stops > 0
  /\ gradingRequests > 0
  /\ \E s \in DOMAIN sockets : sockets[s] = "CLOSING"

\* C20: every ping received on an ElevenLabs connection is answered, in the
\* handler run that receives it, by a pong with the ping's event id sent on
\* that same connection.
C20_EveryPingAnswered ==
  [][pingsIn' = pingsIn + 1
       => elSent' = Append(elSent, Pong(lastPing'.sock, lastPing'.event_id))]_vars

\* A step that handles an ElevenLabs event of the given type.
VoiceEventStep(type) ==
  /\ eventsIn' = eventsIn + 1
  /\ lastEvent'.leg = "elevenlabs"
  /\ lastEvent'.type = type

\* C21: an audio event that carries audio is forwarded to the open media
\* stream as exactly one media frame tagged with the session's streamSid
\* when a streamSid is known. When none is known the audio is dropped and not
\* queued: nothing is sent for it then, and no later step sends a media frame
\* for it, since a step only ever appends the frame of the event it handles.
C21_AudioForwardedOrDropped ==
  [][/\ (VoiceEventStep("audio") /\ lastEvent'.text # "" /\ ws = "open")
          => IF Known(streamSid)
               THEN twSent' = Append(twSent, [event |-> "media",
                                              streamSid |-> streamSid,
                                              payload |-> eventsIn'])
               ELSE twSent' = twSent
     /\ \A k \in DOMAIN twSent' :
          IF k \in DOMAIN twSent
            THEN twSent'[k] = twSent[k]
            ELSE twSent'[k].event = "media"
                   => /\ VoiceEventStep("audio")
                      /\ twSent'[k].payload = eventsIn'
                      /\ k = Len(twSent) + 1]_vars

\* C21 witness: the audio of an event was forwarded with the streamSid.
C21_Witness ==
  /\ lastEvent.type = "audio"
  /\ twSent = <<[event |-> "media", streamSid |-> "MZ1", payload |-> 1]>>

\* C22 as claimed: every interruption event makes the service send a clear
\* frame on the media stream.
C22_AsClaimedEveryInterruptionClears ==
  [][VoiceEventStep("interruption")
       => /\ Len(twSent') = Len(twSent) + 1
          /\ twSent'[Len(twSent')].event = "clear"]_vars

\* C22: an interruption event received while a streamSid is known and the
\* media stream is open makes the service send exactly one clear frame tagged
\* with that streamSid; otherwise nothing is sent for it.
C22_InterruptionClearsKnownStream ==
  [][VoiceEventStep("interruption")
       => IF Known(streamSid) /\ ws = "open"
            THEN twSent' = Append(twSent, [event |-> "clear",
                                           streamSid |-> streamSid,
                                           payload |-> 0])
            ELSE twSent' = twSent]_vars

\* C22 witness: an interruption was answered with a clear frame.
C22_Witness ==
  /\ lastEvent.type = "interruption"
  /\ twSent = <<[event |-> "clear", streamSid |-> "MZ1", payload |-> 0]>>

\* C23: of the ElevenLabs events only agent_response (one assistant turn) and
\* user_transcript (one user turn) change the transcript, by appending the
\* turn of their text; initiation metadata, audio, interruption, ping and
\* unnamed types (and a transcript event without text) leave it unchanged.
C23_OnlyTranscriptEventsChangeTranscript ==
  [][(eventsIn' = eventsIn + 1 /\ lastEvent'.leg = "elevenlabs")
       => CASE lastEvent'.type = "agent_response" /\ lastEvent'.text # "" ->
                 conversationHistory' =
                   Append(conversationHistory,
                          [role |-> "assistant", content |-> lastEvent'.text])
            [] lastEvent'.type = "user_transcript" /\ lastEvent'.text # "" ->
                 conversationHistory' =
                   Append(conversationHistory,
                          [role |-> "user", content |-> lastEvent'.text])
            [] OTHER -> conversationHistory' = conversationHistory]_vars

\* C23 witness: a user_transcript event appended the trainee's turn.
C23_Witness ==
  /\ lastEvent.type = "user_transcript"
  /\ Len(conversationHistory) = 3
  /\ conversationHistory[3] = [role |-> "user", content |-> "Please hurry."]

\* C24: the transcript is append-only, and after its two seed turns it holds
\* the turns of the agent_response and user_transcript events in the order
\* of their arrival: every step keeps the turns it finds and adds, beyond
\* the first two, at most the turn of the transcript event it handles, at the
\* end.
C24_AppendOnlyInArrivalOrder ==
  [][\A k \in DOMAIN conversationHistory' :
       IF k \in DOMAIN conversationHistory
         THEN conversationHistory'[k] = conversationHistory[k]
         ELSE k > 2
                => /\ eventsIn' = eventsIn + 1
                   /\ lastEvent'.type \in {"agent_response", "user_transcript"}
                   /\ k = Len(conversationHistory) + 1
                   /\ conversationHistory'[k].content = lastEvent'.text]_vars

\* C25: a connection error, a close or a failed signed-URL request is never
\* followed by a reconnect (a connection is only ever set up by a start
\* event), and a stop event still hands the transcript accumulated so far to
\* the grader, whatever became of the connection.
C25_NoReconnectAndStillGraded ==
  [][/\ (Len(sockets') + setupPending' > Len(sockets) + setupPending)
          => starts' = starts + 1
     /\ (stops' = stops + 1 /\ Len(conversationHistory) > 0)
          => /\ gradingRequests' = gradingRequests + 1
             /\ Len(analyses') = Len(analyses) + 1]_vars

\* C25 witness: the only setup of the session failed or its connection
\* closed, no other was started, and the transcript was handed to the grader.
C25_Witness ==
  /\ starts = 1
  /\ setupPending = 0
  /\ \A s \in DOMAIN sockets : sockets[s] = "CLOSED"
  /\ stopEffects = <<"analyzeConversation">>
  /\ gradingRequests = 1

\* C26: an invocation of analyzeConversation sends exactly one request to the
\* grading service, and when that request throws or returns text that is not
\* JSON the invocation goes on with a fallback result instead of asking
\* again.
C26_OneRequestFallbackOnFailure ==
  /\ gradingRequests = Len(analyses)
  /\ \A i \in DOMAIN analyses :
       (analyses[i].outcome \in {"threw", "nonjson"})
         => /\ analyses[i].pc # "openai"
            /\ analyses[i].analysisData.pass_fail = "FAIL"
            /\ MentionsAnalysisFailure(
                 analyses[i].analysisData.final_recommendation)

AudioSent == SelectSeq(elSent, LAMBDA m : m.type = "user_audio_chunk")

C28_AudioIsSubsequenceOfMedia ==
  /\ \A k \in DOMAIN AudioSent : AudioSent[k].frame \in 1..mediaIn
  /\ \A j, k \in DOMAIN AudioSent :
       j < k => AudioSent[j].frame < AudioSent[k].frame

C28_Witness ==
  /\ mediaIn = 3
  /\ Len(AudioSent) = 2
  /\ AudioSent[1].frame = 1
  /\ AudioSent[2].frame = 3

\* C29: with several sessions running, an event delivered to one session
\* never changes another session's transcript, stream or call identifier,
\* scenario parameters or ElevenLabs connection handle, and a new
\* connection changes no existing session.
DeliveredTo(ev, ss) ==
  IF ev.leg = "twilio" THEN ev.sock ELSE OwnerOf(ss, ev.sock)

SessionState(r) ==
  <<r.conversationHistory, r.streamSid, r.callSid, r.customParameters,
    r.elevenLabsWs>>

C29_SessionsIsolated ==
  [][\A j \in DOMAIN sessions :
       (j # DeliveredTo(lastEvent', sessions'))
         => SessionState(sessions'[j]) = SessionState(sessions[j])]_vars

C29_Witness ==
  /\ Len(sessions) = 2
  /\ sessions[1].elevenLabsWs # 0
  /\ Len(sessions[1].conversationHistory) = 3
  /\ Len(sessions[2].conversationHistory) = 2
  /\ sessions[2].streamSid = "MZ2"
  /\ sessions[1].customParameters # sessions[2].customParameters

\* C30: an event of an unrecognized type, from Twilio or from ElevenLabs, is
\* ignored: the session's variables, the sockets and what has been sent on
\* either leg stay as they were, and the handlers stay in service.
UnrecognizedEventStep ==
  /\ eventsIn' = eventsIn + 1
  /\ \/ lastEvent'.leg = "elevenlabs" /\ lastEvent'.type = "client_tool_call"
     \/ lastEvent'.leg = "twilio" /\ lastEvent'.type \in {"connected", "mark"}

C30_UnrecognizedEventIgnored ==
  [][UnrecognizedEventStep
       => /\ UNCHANGED <<sessionVars, bridgeVars, twSent, ws,
                         streamParameters, eventCounters, gradingVars>>
          /\ ~crashed']_vars

C30_Witness ==
  /\ lastEvent.leg = "elevenlabs"
  /\ lastEvent.type = "client_tool_call"
  /\ sockets[lastEvent.sock] = "CLOSED"
  /\ Len(conversationHistory) = 2
  /\ ~crashed

\* C31: every result the storage endpoint stores is stored under the
\* scenarioId that the start-call request carried through the stream
\* parameters to analyzeConversation; no match on a scenario name or on
\* prompt text decides the slot.
C31_SlotIsRequestedScenarioId ==
  \A k \in DOMAIN posts :
    posts[k].status = "200"
      => /\ Truthy(analyses[posts[k].by].parsedScenarioId)
         /\ posts[k].slot = NumToStr(analyses[posts[k].by].parsedScenarioId)

\* C32: in the transcript rendered for grading, every trainee turn (role
\* user) is a RESPONDER line and every ai-caller turn (role assistant, the
\* scripted first utterance included) is a CALLER line.
RenderedTurns(g) ==
  IF g.formattedTranscript.details = Absent
    THEN g.rendered
    ELSE SubSeq(g.rendered, 2, Len(g.rendered))

C32_TraineeIsResponderAiIsCaller ==
  \A i \in DOMAIN gradingInputs :
    LET g == gradingInputs[i] IN
      /\ Len(g.formattedTranscript.lines) = Len(RenderedTurns(g))
      /\ \A k \in DOMAIN g.formattedTranscript.lines :
           /\ g.formattedTranscript.lines[k].content = RenderedTurns(g)[k].content
           /\ g.formattedTranscript.lines[k].label =
                IF RenderedTurns(g)[k].role = "user" THEN "RESPONDER"
                                                     ELSE "CALLER"

\* C33: when POSTs for different scenarios are handled at the same time,
\* every one that was answered 200 has its result in the store afterwards,
\* whatever the order of their reads and writes.
C33_NoLostUpdate ==
  \A j, k \in DOMAIN posts :
    (/\ posts[j].status = "200"
     /\ posts[k].status = "200"
     /\ posts[j].slot # posts[k].slot)
      => /\ posts[j].slot \in DOMAIN store
         /\ store[posts[j].slot] = posts[j].data

\* C38: a POST whose payload has no scenarioId and names none of the known
\* scenarios is answered 400: its handler goes no further, and the step that
\* answers it leaves the store as it was.
Unidentified(data) ==
  /\ ~Truthy(data.scenarioId)
  /\ \A needle \in {"John Smith", "Sarah Johnson", "Michael Chen"} :
       ~Includes(OrElse(data.scenario, ""), needle)

C38_UnidentifiedPostRejected ==
  [][\A k \in DOMAIN posts :
       Unidentified(posts[k].data)
         => /\ posts'[k].status \in {"pending", "400"}
            /\ (posts'[k].status # posts[k].status) => store' = store]_vars

C38_Witness ==
  \E j, k \in DOMAIN posts :
    /\ Unidentified(posts[k].data)
    /\ posts[k].status = "400"
    /\ posts[j].status = "200"
    /\ posts[j].slot \in DOMAIN store
    /\ store[posts[j].slot] = posts[j].data

\* C34: for every first_message and prompt of a call, empty and absent ones
\* included, the initiation event sent to ElevenLabs carries as first
\* message the text of the transcript's second seed turn and as prompt the
\* text of its first seed turn.
C34_InitiationMatchesSeedTurns ==
  \A k \in DOMAIN elSent :
    elSent[k].type = "conversation_initiation_client_data"
      => /\ Len(conversationHistory) >= 2
         /\ elSent[k].prompt = conversationHistory[1].content
         /\ elSent[k].first_message = conversationHistory[2].content

\* C35: the conversation in a saved analysis file holds exactly the turns
\* that were rendered into the transcript sent for grading; a turn that
\* arrived after grading was triggered is not in it.
C35_SavedConversationIsRenderedTranscript ==
  \A i \in DOMAIN gradingInputs :
    (gradingInputs[i].saved /\ analyses[i].pc \in {"post", "done"})
      => gradingInputs[i].conversation = gradingInputs[i].rendered

\* C36: when the grading request produced a result (a parsed one or the
\* parse fallback) and the write of the analysis file then failed, that
\* result is still POSTed to the storage endpoint.
WriteFailed(a) == a.outcome \in {"json", "nonjson"} /\ a.pc = "rejected"

C36_ResultPostedWhenSaveFails ==
  \A i \in DOMAIN analyses :
    WriteFailed(analyses[i])
      => \E k \in DOMAIN posts :
           posts[k].by = i /\ posts[k].data = analyses[i].analysisData

\* C37: a stop event on a media stream that has had no start event finds an
\* empty transcript: it starts no grading, nothing is POSTed, and the
\* session's variables and sockets stay as they were.
C37_StopBeforeStartDoesNothing ==
  [][(stops' = stops + 1 /\ starts = 0)
       => /\ UNCHANGED <<sessionVars, bridgeVars, gradingVars, ws, crashed>>
          /\ gradingRequests' = 0
          /\ posts' = <<>>]_vars

C37_Witness ==
  /\ starts = 1
  /\ stops = 2
  /\ gradingRequests = 1
  /\ Len(analyses) = 1

====
